---- MODULE Spec2Model ----
(***************************************************************************)
(* Model of src/py_rate_order.py: the selection of the kinetic order       *)
(* (0, 1 or 2) of a reaction from time/concentration measurements.         *)
(*                                                                         *)
(* Real numbers are modelled exactly, as fractions [n |-> .., d |-> ..]    *)
(* in lowest terms with d > 0.  Two special values use d = 0 the way IEEE  *)
(* arithmetic does: -1/0 is -np.inf and 0/0 is NaN.  Positive              *)
(* concentrations are drawn from the powers of two, for which the natural  *)
(* logarithm is an exact integer multiple of ln 2: the y series of order 1 *)
(* is held in units of ln 2 (R^2 does not depend on the unit and the slope *)
(* is a multiple of it).                                                   *)
(***************************************************************************)
EXTENDS Integers, Sequences, FiniteSets, TLC

\* time, concentration: the two series main read (time_data,
\*   concentration_data); pc: where the program is; i: the position of the
\*   for loop in orders; best_order, best_r2, best_details: the locals of
\*   determine_best_order; caught: per iteration run, the message of the
\*   exception its except clause caught ("" when the try block completed);
\*   result: what determine_best_order returned or raised; rate_constant: the
\*   local of plot_best_fit.
VARIABLES time, concentration, pc, i, best_order, best_r2, best_details,
          caught, result, rate_constant

vars == <<time, concentration, pc, i, best_order, best_r2, best_details,
          caught, result, rate_constant>>

\* Bounds of the model.
MaxLen == 3
MaxTime == 3
MaxExp == 2

\* ------------------------------------------------------------------------
\* Values

\* Python's None and a present value.
None == <<>>
Some(x) == <<x>>

RECURSIVE Gcd(_, _)
Gcd(a, b) == IF b = 0 THEN a ELSE Gcd(b, a % b)

Abs(a) == IF a < 0 THEN -a ELSE a

\* The float n/d, in lowest terms with a positive denominator; 0/0 is NaN.
Frac(n, d) ==
    IF d = 0 THEN [n |-> IF n > 0 THEN 1 ELSE IF n < 0 THEN -1 ELSE 0, d |-> 0]
    ELSE LET g == Gcd(Abs(n), Abs(d))
             s == IF d < 0 THEN -1 ELSE 1
         IN  [n |-> s * (n \div g), d |-> s * (d \div g)]

Real(n) == [n |-> n, d |-> 1]
NegInf == [n |-> -1, d |-> 0]

\* a/b < c/d for a, c >= 0 and b, d > 0, by the Euclidean expansion (no
\* product of the four numbers is formed).
RECURSIVE PosLess(_, _, _, _)
PosLess(a, b, c, d) ==
    LET q1 == a \div b
        q2 == c \div d
        r1 == a % b
        r2 == c % d
    IN  IF q1 # q2 THEN q1 < q2
        ELSE IF r2 = 0 THEN FALSE
        ELSE IF r1 = 0 THEN TRUE
        ELSE PosLess(d, r2, b, r1)

\* x > y on floats: false when either is NaN, true of any number against -inf.
Gt(x, y) ==
    IF (x.d = 0 /\ x.n = 0) \/ (y.d = 0 /\ y.n = 0) THEN FALSE
    ELSE IF y.d = 0 THEN y.n < 0 /\ ~(x.d = 0 /\ x.n < 0)
    ELSE IF x.d = 0 THEN x.n > 0
    ELSE IF x.n < 0 /\ y.n < 0 THEN PosLess(-x.n, x.d, -y.n, y.d)
    ELSE IF x.n < 0 THEN FALSE
    ELSE IF y.n < 0 THEN TRUE
    ELSE PosLess(y.n, y.d, x.n, x.d)

RECURSIVE Pow2(_)
Pow2(e) == IF e = 0 THEN 1 ELSE 2 * Pow2(e - 1)

\* np.log of a power of two, in units of ln 2.
RECURSIVE Log2(_)
Log2(c) == IF c <= 1 THEN 0 ELSE 1 + Log2(c \div 2)

RECURSIVE SumTo(_, _)
SumTo(f, n) == IF n = 0 THEN 0 ELSE f[n] + SumTo(f, n - 1)

RECURSIVE LcmTo(_, _)
LcmTo(f, n) ==
    IF n = 0 THEN 1
    ELSE LET l == LcmTo(f, n - 1) IN (l * f[n]) \div Gcd(l, f[n])

\* ------------------------------------------------------------------------
\* transform_data

PositiveLn == "All concentration values must be positive for ln[A]."
PositiveInv == "All concentration values must be positive for 1/[A]."
BadOrder == "Order must be 0, 1, or 2."

Raise(msg) == [ok |-> FALSE, err |-> msg]

\* A mutation of AnyNonPositive: zero let through.
AnyNegative(c) == \E k \in 1..Len(c) : c[k] < 0

\* np.any(concentration <= 0)
AnyNonPositive(c) == \E k \in 1..Len(c) : c[k] <= 0

\* A mutation of Order0: the slope of order 0 taken as +k.
Order0_plus(t, c) ==
    [ok |-> TRUE, t |-> t, y |-> [k \in 1..Len(c) |-> Real(c[k])],
     ylabel |-> "[A] (M)", sign_factor |-> 1]

\* A mutation of Order0: the positivity check of the other orders applied.
Order0_checked(t, c) ==
    IF \E k \in 1..Len(c) : c[k] <= 0 THEN Raise(PositiveLn)
    ELSE [ok |-> TRUE, t |-> t, y |-> [k \in 1..Len(c) |-> Real(c[k])],
          ylabel |-> "[A] (M)", sign_factor |-> -1]

\* order == 0: y = concentration.
Order0(t, c) ==
    [ok |-> TRUE, t |-> t, y |-> [k \in 1..Len(c) |-> Real(c[k])],
     ylabel |-> "[A] (M)", sign_factor |-> -1]

\* order == 1: y = np.log(concentration), in units of ln 2.
Order1(t, c) ==
    IF AnyNonPositive(c) THEN Raise(PositiveLn)
    ELSE [ok |-> TRUE, t |-> t, y |-> [k \in 1..Len(c) |-> Real(Log2(c[k]))],
          ylabel |-> "ln[A]", sign_factor |-> -1]

\* order == 2: y = 1 / concentration.
Order2(t, c) ==
    IF AnyNonPositive(c) THEN Raise(PositiveInv)
    ELSE [ok |-> TRUE, t |-> t, y |-> [k \in 1..Len(c) |-> Frac(1, c[k])],
          ylabel |-> "1/[A] (1/M)", sign_factor |-> 1]

transform_data(t, c, order) ==
    IF order = 0 THEN Order0(t, c)
    ELSE IF order = 1 THEN Order1(t, c)
    ELSE IF order = 2 THEN Order2(t, c)
    ELSE Raise(BadOrder)

\* ------------------------------------------------------------------------
\* scipy.stats.linregress, as called on line 49

EmptyInputs == "Inputs must not be empty."
IdenticalX == "Cannot calculate a linear regression if all x values are identical"

AllIdentical(x) == \A j, k \in 1..Len(x) : x[j] = x[k]

\* The least-squares fit of y against x: slope, intercept and the square of
\* the correlation coefficient r (with the sign of r).
Regression(x, y) ==
    LET n == Len(x)
        D == LcmTo([k \in 1..n |-> y[k].d], n)
        Y == [k \in 1..n |-> y[k].n * (D \div y[k].d)]
        Sx == SumTo(x, n)
        Sy == SumTo(Y, n)
        \* n^2 times the (co)variances of x and D*y
        ssxm == n * SumTo([k \in 1..n |-> x[k] * x[k]], n) - Sx * Sx
        ssxym == n * SumTo([k \in 1..n |-> x[k] * Y[k]], n) - Sx * Sy
        ssym == n * SumTo([k \in 1..n |-> Y[k] * Y[k]], n) - Sy * Sy
        \* r = 0 when a variance is 0, else clipped to [-1, 1]
        rsq == IF ssxm = 0 \/ ssym = 0 THEN Real(0)
               ELSE LET q == Frac(ssxym * ssxym, ssxm * ssym)
                    IN  IF Gt(q, Real(1)) THEN Real(1) ELSE q
    IN  [ok |-> TRUE,
         slope |-> Frac(ssxym, ssxm * D),
         intercept |-> Frac(Sy * ssxm - ssxym * Sx, n * D * ssxm),
         r_sign |-> IF ssxm = 0 \/ ssym = 0 \/ ssxym = 0 THEN 0
                    ELSE IF ssxym > 0 THEN 1 ELSE -1,
         r_squared |-> rsq]

\* A mutation of linregress: no check for identical x values.
linregress_nocheck(x, y) ==
    IF Len(x) = 0 \/ Len(y) = 0 THEN Raise(EmptyInputs)
    ELSE Regression(x, y)

\* The library raises ValueError on empty inputs and on two or more x values
\* that are all identical.  A single sample passes both checks: r is 0 (zero
\* variance) and slope and intercept are 0.0/0.0 = NaN.
linregress(x, y) ==
    IF Len(x) = 0 \/ Len(y) = 0 THEN Raise(EmptyInputs)
    ELSE IF AllIdentical(x) /\ Len(x) > 1 THEN Raise(IdenticalX)
    ELSE Regression(x, y)

\* ------------------------------------------------------------------------
\* determine_best_order

orders == <<0, 1, 2>>

\* The body of the try block for one order (lines 48-50).
TryOrder(t, c, order) ==
    LET tr == transform_data(t, c, order) IN
    IF ~tr.ok THEN tr
    ELSE LET lr == linregress(tr.t, tr.y) IN
         IF ~lr.ok THEN lr
         ELSE [ok |-> TRUE, r2 |-> lr.r_squared,
               details |-> [slope |-> lr.slope, intercept |-> lr.intercept,
                            y |-> tr.y, ylabel |-> tr.ylabel,
                            sign_factor |-> tr.sign_factor]]

\* Mutations of Improves: every fit recorded; a tie recorded too.
Improves_always(r2, best) == TRUE
Improves_ge(r2, best) == ~Gt(best, r2)

\* r2 > best_r2
Improves(r2, best) == Gt(r2, best)

TimeVals == 0..MaxTime
ConcVals == {-1, 0} \cup {Pow2(e) : e \in 0..MaxExp}

\* The samples are listed in time order: the fit of a series is a function
\* of its multiset of samples.
Sorted(t) == \A k \in 1..(Len(t) - 1) : t[k] <= t[k + 1]

\* main has read two series of equal length; determine_best_order has set
\* its locals.
Init ==
    /\ \E n \in 0..MaxLen :
         /\ time \in {t \in [1..n -> TimeVals] : Sorted(t)}
         /\ concentration \in [1..n -> ConcVals]
    /\ pc = "loop"
    /\ i = 1
    /\ best_order = None
    /\ best_r2 = NegInf
    /\ best_details = None
    /\ caught = <<>>
    /\ result = None
    /\ rate_constant = None

\* A mutation of IterRecord: best_details left as it was.
IterRecord_stale(f) ==
    /\ f.ok /\ Improves(f.r2, best_r2)
    /\ best_r2' = f.r2
    /\ best_order' = Some(orders[i])
    /\ caught' = Append(caught, "")
    /\ i' = i + 1
    /\ UNCHANGED <<time, concentration, pc, best_details, result, rate_constant>>

\* The fit f of this order succeeded and beats the best so far (lines 52-55).
IterRecord(f) ==
    /\ f.ok /\ Improves(f.r2, best_r2)
    /\ best_r2' = f.r2
    /\ best_order' = Some(orders[i])
    /\ best_details' = Some(f.details)
    /\ caught' = Append(caught, "")
    /\ i' = i + 1
    /\ UNCHANGED <<time, concentration, pc, result, rate_constant>>

\* The fit f of this order succeeded without beating the best so far.
IterKeep(f) ==
    /\ f.ok /\ ~Improves(f.r2, best_r2)
    /\ caught' = Append(caught, "")
    /\ i' = i + 1
    /\ UNCHANGED <<time, concentration, pc, best_order, best_r2, best_details,
                   result, rate_constant>>

\* A mutation of IterSkip: the exception leaves determine_best_order.
IterSkip_abort(f) ==
    /\ ~f.ok
    /\ result' = Some(f)
    /\ pc' = "raised"
    /\ UNCHANGED <<time, concentration, i, best_order, best_r2, best_details,
                   caught, rate_constant>>

\* The try block raised f: except Exception, continue (lines 56-58).
IterSkip(f) ==
    /\ ~f.ok
    /\ caught' = Append(caught, f.err)
    /\ i' = i + 1
    /\ UNCHANGED <<time, concentration, pc, best_order, best_r2, best_details,
                   result, rate_constant>>

\* One iteration of the loop over the orders.
Iterate ==
    /\ pc = "loop" /\ i <= Len(orders)
    /\ LET f == TryOrder(time, concentration, orders[i]) IN
         \/ IterRecord(f)
         \/ IterKeep(f)
         \/ IterSkip(f)

NoFit == "Unable to fit any reaction order with the provided data."

RaiseNoFit ==
    /\ pc = "loop" /\ i > Len(orders)
    /\ best_order = None
    /\ result' = Some(Raise(NoFit))
    /\ pc' = "raised"
    /\ UNCHANGED <<time, concentration, i, best_order, best_r2, best_details,
                   caught, rate_constant>>

\* A mutation of Return: no check that an order was recorded.
Return_unchecked ==
    /\ pc = "loop" /\ i > Len(orders)
    /\ result' = Some([ok |-> TRUE, best_order |-> best_order,
                       best_r2 |-> best_r2, best_details |-> best_details])
    /\ pc' = "returned"
    /\ UNCHANGED <<time, concentration, i, best_order, best_r2, best_details,
                   caught, rate_constant>>

Return ==
    /\ pc = "loop" /\ i > Len(orders)
    /\ best_order # None
    /\ result' = Some([ok |-> TRUE, best_order |-> best_order,
                       best_r2 |-> best_r2, best_details |-> best_details])
    /\ pc' = "returned"
    /\ UNCHANGED <<time, concentration, i, best_order, best_r2, best_details,
                   caught, rate_constant>>

\* float * int of line 72.
Times(s, x) == Frac(s * x.n, x.d)

plot_best_fit ==
    /\ pc = "returned"
    /\ LET r == result[1]
           d == r.best_details[1]
       IN  rate_constant' = Some(Times(d.sign_factor, d.slope))
    /\ pc' = "plotted"
    /\ UNCHANGED <<time, concentration, i, best_order, best_r2, best_details,
                   caught, result>>

Next ==
    \/ Iterate
    \/ RaiseNoFit
    \/ Return
    \/ plot_best_fit

Spec == Init /\ [][Next]_vars

\* ------------------------------------------------------------------------
\* Properties

\* The try block of one order on the series being analysed.
Fit(o) == TryOrder(time, concentration, o)

Returned == pc \in {"returned", "plotted"}

\* The orders whose iteration has run.
Tried == {orders[k] : k \in 1..(i - 1)}

OrderSet == {orders[k] : k \in 1..Len(orders)}

\* C1: whenever determine_best_order returns, the returned R^2 is the R^2 of
\* the fit of the returned order, and no order whose transform and
\* regression both succeeded has a strictly greater R^2.
C1_ReturnsBestR2 ==
    pc = "returned" =>
        LET r == result[1]
            o == r.best_order[1]
            fit == [p \in OrderSet |-> Fit(p)]
        IN  /\ o \in OrderSet
            /\ fit[o].ok
            /\ r.best_r2 = fit[o].r2
            /\ \A p \in OrderSet : fit[p].ok => ~Gt(fit[p].r2, r.best_r2)

\* All three orders fit, and order 1 fits strictly best.
C1_Witness ==
    /\ pc = "returned"
    /\ result[1].best_order = Some(1)
    /\ Fit(0).ok /\ Fit(2).ok
    /\ Gt(Fit(1).r2, Fit(0).r2) /\ Gt(Fit(1).r2, Fit(2).r2)

\* Among the viable orders reaching the returned R^2, the returned order is
\* the lowest-numbered one.
LowestOfTies ==
    pc = "returned" =>
        \A p \in OrderSet :
            LET fit == Fit(p) IN
            (fit.ok /\ fit.r2 = result[1].best_r2)
                => result[1].best_order[1] <= p

\* An iteration replaces the current best only by a strictly greater R^2.
ReplacesOnlyIfGreater ==
    best_order' # best_order => Gt(best_r2', best_r2)

\* C2: if two or more viable orders reach the same maximal R^2, the
\* lowest-numbered of them is returned; a later order replaces the current
\* best only when its R^2 is strictly greater.
C2_TieBreak == []LowestOfTies /\ [][ReplacesOnlyIfGreater]_vars

\* Orders 0 and 2 tie at the maximal R^2, above order 1: order 0 is returned.
C2_Witness ==
    /\ pc = "returned"
    /\ result[1].best_order = Some(0)
    /\ Fit(1).ok /\ Fit(2).ok
    /\ Fit(2).r2 = Fit(0).r2
    /\ Gt(Fit(0).r2, Fit(1).r2)

\* C3: with a concentration <= 0 and time values that are not all
\* identical, determine_best_order does not raise: orders 1 and 2 are
\* skipped with their positivity error, every order is visited, and order 0
\* is returned with its fit.
C3_SkipNeverAborts ==
    ((\E k \in 1..Len(concentration) : concentration[k] <= 0)
        /\ ~AllIdentical(time)) =>
        LET fit0 == Fit(0) IN
        /\ pc # "raised"
        /\ i >= 2 => /\ caught[1] = ""
                     /\ best_order = Some(0)
                     /\ best_r2 = fit0.r2
                     /\ best_details = Some(fit0.details)
        /\ i >= 3 => caught[2] = PositiveLn
        /\ i >= 4 => caught[3] = PositiveInv
        /\ Returned =>
             /\ Len(caught) = Len(orders)
             /\ result[1] = [ok |-> TRUE, best_order |-> Some(0),
                             best_r2 |-> fit0.r2,
                             best_details |-> Some(fit0.details)]

C3_Witness ==
    /\ pc = "returned"
    /\ \E k \in 1..Len(concentration) : concentration[k] <= 0
    /\ ~AllIdentical(time)
    /\ Len(time) = 3
    /\ caught = <<"", PositiveLn, PositiveInv>>
    /\ result[1].best_order = Some(0)

Positive(o) == IF o = 1 THEN PositiveLn ELSE PositiveInv

\* C5: transform_data of order 1 or 2 fails with its positivity error if and
\* only if some concentration is zero or negative; otherwise it succeeds
\* with a y series as long as the input.
C5_PositivityCheck ==
    \A o \in {1, 2} :
        LET tr == transform_data(time, concentration, o) IN
        /\ ~tr.ok <=> \E k \in 1..Len(concentration) : concentration[k] <= 0
        /\ ~tr.ok => tr.err = Positive(o)
        /\ tr.ok => Len(tr.y) = Len(concentration)
        /\ o \in Tried =>
             (caught[o + 1] = Positive(o)
                <=> \E k \in 1..Len(concentration) : concentration[k] <= 0)

\* A series whose only non-positive concentration is a zero has been
\* rejected by orders 1 and 2.
C5_Witness ==
    /\ i = 4
    /\ \E k \in 1..Len(concentration) : concentration[k] = 0
    /\ \A k \in 1..Len(concentration) : concentration[k] >= 0
    /\ caught[2] = PositiveLn /\ caught[3] = PositiveInv

\* 0 <= x <= 1
InUnit(x) == x.d > 0 /\ x.n >= 0 /\ x.n <= x.d

\* C6: for series of length >= 2, determine_best_order either returns an
\* order in {0, 1, 2} with 0 <= R^2 <= 1 or raises its no-fit error; it never
\* returns None as the order nor the initial -inf as R^2.
C6_ResultShape ==
    Len(time) >= 2 =>
        /\ Returned =>
             /\ result[1].ok
             /\ result[1].best_order # None
             /\ result[1].best_order[1] \in {0, 1, 2}
             /\ result[1].best_r2 # NegInf
             /\ InUnit(result[1].best_r2)
        /\ pc = "raised" => result = Some(Raise(NoFit))
        /\ i > Len(orders) /\ pc = "loop" => ENABLED (Return \/ RaiseNoFit)

\* An imperfect fit is returned: 0 < R^2 < 1.
C6_Witness ==
    /\ pc = "returned"
    /\ Len(time) >= 2
    /\ Gt(result[1].best_r2, Real(0))
    /\ Gt(Real(1), result[1].best_r2)

\* concentration[k] = c0 - k * time[k] for some c0 and k, over time values
\* that are not all identical.
ZeroOrderDecay ==
    \E a, b \in 1..Len(time) :
        /\ time[a] # time[b]
        /\ \A m \in 1..Len(time) :
             (concentration[m] - concentration[a]) * (time[b] - time[a])
                = (concentration[b] - concentration[a]) * (time[m] - time[a])

\* The k of the generator, from two samples at different times.
GeneratorK ==
    LET p == CHOOSE q \in (1..Len(time)) \X (1..Len(time)) :
                 time[q[1]] # time[q[2]]
    IN  Frac(concentration[p[1]] - concentration[p[2]],
             time[p[2]] - time[p[1]])

C8_OnlyAnticipatedSwallowed ==
    \A k \in 1..Len(caught) :
        caught[k] \in {"", PositiveLn, PositiveInv, IdenticalX}

\* C9: transform_data of order 0 never fails and returns the concentration
\* unchanged, with label "[A] (M)" and sign factor -1, whatever the sign of
\* the values.
C9_Order0Identity ==
    LET tr == transform_data(time, concentration, 0) IN
    /\ tr.ok
    /\ Len(tr.y) = Len(concentration)
    /\ \A k \in 1..Len(concentration) : tr.y[k] = Real(concentration[k])
    /\ tr.ylabel = "[A] (M)"
    /\ tr.sign_factor = -1
    /\ (i = 2 /\ caught[1] = "") =>
         /\ best_order = Some(0)
         /\ best_details[1].y = [k \in 1..Len(concentration) |->
                                    Real(concentration[k])]
         /\ best_details[1].ylabel = "[A] (M)"
         /\ best_details[1].sign_factor = -1

\* Order 0 has been fitted to a series with a zero and a negative value.
C9_Witness ==
    /\ i = 2 /\ caught[1] = ""
    /\ \E k \in 1..Len(concentration) : concentration[k] = 0
    /\ \E k \in 1..Len(concentration) : concentration[k] < 0
    /\ best_details[1].y = [k \in 1..Len(concentration) |->
                               Real(concentration[k])]

\* best_order, best_r2 and best_details are all initial or all of one order.
Coherent ==
    \/ best_order = None /\ best_r2 = NegInf /\ best_details = None
    \/ \E o \in Tried :
         /\ best_order = Some(o)
         /\ LET fit == Fit(o) IN
              /\ fit.ok
              /\ best_r2 = fit.r2
              /\ best_details = Some(fit.details)
         /\ best_details[1].sign_factor = (IF o = 2 THEN 1 ELSE -1)

\* An iteration that is skipped or does not improve changes none of the three.
KeepsBest ==
    (i' = i + 1 /\ (caught'[i] # "" \/ ~Gt(Fit(orders[i]).r2, best_r2)))
        => UNCHANGED <<best_order, best_r2, best_details>>

\* C10: after every iteration best_order, best_r2 and best_details are all
\* initial or all from the fit of one order, the returned tuple is that
\* triple, and a skipped or non-improving order leaves the three unchanged.
C10_BestCoherent ==
    /\ [](Coherent
          /\ (Returned => result[1] = [ok |-> TRUE, best_order |-> best_order,
                                       best_r2 |-> best_r2,
                                       best_details |-> best_details]))
    /\ [][KeepsBest]_vars

\* Order 0 was recorded, order 1 replaced it and order 2 did not improve on
\* order 1.
C10_Witness ==
    /\ pc = "returned"
    /\ caught = <<"", "", "">>
    /\ best_order = Some(1)
    /\ Gt(Fit(1).r2, Fit(2).r2)
    /\ best_details = Some(Fit(1).details)

====
